---- MODULE Spec2Model ----
(***************************************************************************)
(* Model of the strategy backtester: the strategy registry                 *)
(* (core/registry.py), the parameter validator                             *)
(* (core/strategy_base.py), the EMA crossover strategy                     *)
(* (strategies/ema_crossover.py), the run_backtest pipeline (app.py) and   *)
(* the CSV ingestion pipeline (utils/io_utils.py).                         *)
(*                                                                         *)
(* Numbers.  EMA values are exact rationals <<n, d>> with d > 0; the code  *)
(* computes them in binary floating point.  Parameter values carry their   *)
(* Python type in "kind" and twice their numeric value in "x2", so that    *)
(* 1.5 is representable.                                                   *)
(***************************************************************************)
EXTENDS Integers, Sequences, FiniteSets, TLC

VARIABLES
    registry,       \* StrategyRegistry._strategies: the adapters in key insertion order
    registered,     \* every adapter handed to register() so far, in call order
    strategy_name,  \* run_backtest argument
    params,         \* run_backtest argument: function key -> value
    trade_mode,     \* run_backtest argument / EMACrossBT.trade_mode
    indicator_engine, \* run_backtest argument / EMACrossBT.indicator_engine
    talib_installed,  \* whether "import talib" succeeds in this environment
    pc,             \* position inside run_backtest / Backtest.run
    error,          \* "" or the exception run_backtest raises
    constructed,    \* a Backtest object has been constructed
    data,           \* the Close column handed to Backtest
    fast, slow,     \* EMACrossBT.fast / .slow (whole indicator arrays)
    fast_ema, slow_ema, \* EMACrossBT.fast_ema / .slow_ema set by bt.run
    i,              \* number of bars visible to the strategy (1-based bar index)
    trades,         \* broker.trades: sequence of "long" / "short"
    orders,         \* broker.orders: pending orders, in processing order
    lastEval,       \* what the latest EMACrossBT.next saw and issued
    vSchema, vValues, vResult, \* validate_params: schema, values, returned values
    csvHeader, csvRows, \* the uploaded CSV file: header names and rows of cells
    df,             \* the DataFrame load_and_validate_csv works on and returns
    csvErr, csvPc   \* its error message and its position in the pipeline

vars == <<registry, registered, strategy_name, params, trade_mode,
          indicator_engine, talib_installed, pc, error, constructed,
          data, fast, slow, fast_ema, slow_ema, i, trades, orders, lastEval,
          vSchema, vValues, vResult, csvHeader, csvRows, df, csvErr, csvPc>>

runVars == <<registry, registered, strategy_name, params, trade_mode,
             indicator_engine, talib_installed, pc, error, constructed,
             data, fast, slow, fast_ema, slow_ema, i, trades, orders, lastEval>>
valVars == <<vSchema, vValues, vResult>>
csvVars == <<csvHeader, csvRows, df, csvErr, csvPc>>

----------------------------------------------------------------------------
(* Bounds of the model *)

MaxBars == 5        \* longest price series
MaxPrice == 2       \* close prices are 1..MaxPrice
MaxPeriod == 3      \* integer parameter values tried in a run are 0..MaxPeriod
RangeMax == 2       \* upper end of the [1, RangeMax] range of the schemas tried
MaxRegs == 3        \* register() calls made on one registry
MaxIds == 2         \* distinct adapter objects carrying one name
MaxRows == 2        \* most rows of a CSV file
MaxTs == 2          \* timestamps of CSV rows are 1..MaxTs

----------------------------------------------------------------------------
(* Parameter values and schemas *)

IntV(n) == [kind |-> "int", x2 |-> 2 * n]
FloatV(twice) == [kind |-> "float", x2 |-> twice]
StrV == [kind |-> "str", x2 |-> 0]
BoolV(b) == [kind |-> "bool", x2 |-> IF b THEN 2 ELSE 0]

\* isinstance(value, int): bool is a subclass of int
IsInstanceInt(v) == v.kind \in {"int", "bool"}
\* isinstance(value, (int, float))
IsInstanceIntFloat(v) == v.kind \in {"int", "bool", "float"}

\* EMACrossoverAdapter.params_schema, in dict order
EMASchemaKeys == <<"fast_ema", "slow_ema">>
EMASchema ==
    [k \in {"fast_ema", "slow_ema"} |->
        IF k = "fast_ema"
        THEN [type |-> "int", hasDefault |-> TRUE, default |-> 12,
              hasMin |-> TRUE, min |-> 1, hasMax |-> TRUE, max |-> 100]
        ELSE [type |-> "int", hasDefault |-> TRUE, default |-> 26,
              hasMin |-> TRUE, min |-> 2, hasMax |-> TRUE, max |-> 200]]

\* mutant: the upper bound is not checked
ParamOk_noMax(info, present, value) ==
    IF ~present
    THEN info.hasDefault
    ELSE /\ ~(info.type = "int" /\ ~IsInstanceInt(value))
         /\ ~(info.type = "float" /\ ~IsInstanceIntFloat(value))
         /\ ~(info.hasMin /\ value.x2 < 2 * info.min)

\* One iteration of the loop of validate_params: TRUE when the parameter passes
ParamOk(info, present, value) ==
    IF ~present
    THEN info.hasDefault
    ELSE /\ ~(info.type = "int" /\ ~IsInstanceInt(value))
         /\ ~(info.type = "float" /\ ~IsInstanceIntFloat(value))
         /\ ~(info.hasMin /\ value.x2 < 2 * info.min)
         /\ ~(info.hasMax /\ value.x2 > 2 * info.max)

\* StrategyAdapter.validate_params(params) over the schema's items, in order
RECURSIVE validate_loop(_, _, _, _)
validate_loop(keys, schema, values, k) ==
    IF k > Len(keys) THEN TRUE
    ELSE IF ~ParamOk(schema[keys[k]], keys[k] \in DOMAIN values,
                     IF keys[k] \in DOMAIN values THEN values[keys[k]] ELSE StrV)
         THEN FALSE
         ELSE validate_loop(keys, schema, values, k + 1)

validate_params(keys, schema, values) == validate_loop(keys, schema, values, 1)

\* int(x) for a value that passed validation (truncation toward zero, x >= 0)
IntOf(v) == v.x2 \div 2

\* params.get(key, default)
ParamsGet(p, key, default) == IF key \in DOMAIN p THEN p[key] ELSE IntV(default)

----------------------------------------------------------------------------
(* EMA series and crossover *)

Lt(a, b) == a[1] * b[2] < b[1] * a[2]

\* s.ewm(span=period, adjust=False).mean(): seeded at the first value,
\* alpha = 2 / (period + 1)
RECURSIVE ewm(_, _, _)
ewm(s, period, t) ==
    IF t = 1 THEN <<s[1], 1>>
    ELSE LET prev == ewm(s, period, t - 1)
         IN  <<2 * s[t] * prev[2] + (period - 1) * prev[1], (period + 1) * prev[2]>>

\* mutant: the first period values are a scaled warm-up, not the average
ema_pandas_warmup(s, period) ==
    [t \in 1..Len(s) |->
        IF t <= period THEN <<s[t] * (period + 1), period>> ELSE ewm(s, period, t)]

ema_pandas(s, period) == [t \in 1..Len(s) |-> ewm(s, period, t)]

\* talib.EMA(values, timeperiod): a period below 2 is a bad parameter; the
\* first period - 1 outputs are NaN, the next is the mean of the first
\* period values, and the recursion runs from there.  NaN is <<0, 0>>.
NaN == <<0, 0>>

RECURSIVE Sum(_, _)
Sum(s, n) == IF n = 0 THEN 0 ELSE s[n] + Sum(s, n - 1)

RECURSIVE talib_at(_, _, _)
talib_at(s, period, t) ==
    IF t < period THEN NaN
    ELSE IF t = period THEN <<Sum(s, period), period>>
    ELSE LET prev == talib_at(s, period, t - 1)
         IN  <<2 * s[t] * prev[2] + (period - 1) * prev[1], (period + 1) * prev[2]>>

talib_EMA(s, period) == [t \in 1..Len(s) |-> talib_at(s, period, t)]

\* mutant: without TA-Lib the fallback is not taken and the indicator is empty
ema_talib_or_pandas_noFallback(s, period, installed) ==
    IF installed /\ period >= 2
    THEN talib_EMA(s, period)
    ELSE [t \in 1..Len(s) |-> NaN]

\* _ema_talib_or_pandas: any exception inside the try falls back to pandas
ema_talib_or_pandas(s, period, installed) ==
    IF installed /\ period >= 2
    THEN talib_EMA(s, period)
    ELSE ema_pandas(s, period)

Engines == {"pandas", "TA-Lib"}

\* (self.indicator_engine or "pandas").lower().startswith("ta")
UsesTalib(engine) == engine = "TA-Lib"

\* Backtest.run: the first bar handed to next() follows the last leading NaN
\* of the indicators (numpy argmin of isnan: 0 when all values are NaN)
FirstValid(ind) ==
    IF \A t \in DOMAIN ind : ind[t] = NaN THEN 0
    ELSE (CHOOSE t \in DOMAIN ind : ind[t] # NaN /\ \A u \in 1..(t - 1) : ind[u] = NaN) - 1

Max2(a, b) == IF a >= b THEN a ELSE b
Start(f, sl) == 1 + Max2(FirstValid(f), FirstValid(sl))

\* backtesting.lib.crossover(series1, series2):
\*   series1[-2] < series2[-2] and series1[-1] > series2[-1]; False on IndexError
\* mutant: the earlier bar compared with <= instead of <
crossover_le(series1, series2) ==
    IF Len(series1) < 2 \/ Len(series2) < 2 THEN FALSE
    ELSE /\ ~Lt(series2[Len(series2) - 1], series1[Len(series1) - 1])
         /\ Lt(series2[Len(series2)], series1[Len(series1)])

crossover(series1, series2) ==
    IF Len(series1) < 2 \/ Len(series2) < 2 THEN FALSE
    ELSE /\ Lt(series1[Len(series1) - 1], series2[Len(series2) - 1])
         /\ Lt(series2[Len(series2)], series1[Len(series1)])

----------------------------------------------------------------------------
(* Position and orders (backtesting.py broker, exclusive_orders=True) *)

Count(seq, x) == Cardinality({k \in DOMAIN seq : seq[k] = x})
PositionSize(tr) == Count(tr, "long") - Count(tr, "short")
is_long(tr) == PositionSize(tr) > 0
is_short(tr) == PositionSize(tr) < 0
PositionState(tr) == IF is_long(tr) THEN "Long" ELSE IF is_short(tr) THEN "Short" ELSE "Flat"

Modes == {"Only_Buy", "Only_Sell", "Both_Buy_Sell"}

Opt(cond, intent) == IF cond THEN <<intent>> ELSE <<>>

\* The calls EMACrossBT.next makes, in program order, for one evaluation.
\* The position does not change inside next(): orders fill on the next bar.
\* mutant: the Only_Buy branch also opens a short on a down-cross
OnlyBuyIntents_sells(up, down, long, short) ==
    Opt(short, "close") \o Opt(up /\ ~long, "buy") \o Opt(long /\ down, "close")
        \o Opt(down /\ ~short, "sell")

OnlyBuyIntents(up, down, long, short) ==
    Opt(short, "close") \o Opt(up /\ ~long, "buy") \o Opt(long /\ down, "close")

\* mutant: the Only_Sell branch sells whenever it is not short, cross or not
OnlySellIntents_noDownGuard(up, down, long, short) ==
    Opt(long, "close") \o Opt(~short, "sell") \o Opt(short /\ up, "close")

\* mutant: the Only_Sell branch does not open a short while a long is open
OnlySellIntents_closeOnly(up, down, long, short) ==
    Opt(long, "close") \o Opt(down /\ ~short /\ ~long, "sell") \o Opt(short /\ up, "close")

OnlySellIntents(up, down, long, short) ==
    Opt(long, "close") \o Opt(down /\ ~short, "sell") \o Opt(short /\ up, "close")

\* mutant: buy() / sell() without the "not already in that position" guard
BothIntents_pyramid(up, down, long, short) ==
    IF up THEN Opt(short, "close") \o <<"buy">>
    ELSE IF down THEN Opt(long, "close") \o <<"sell">>
    ELSE <<>>

\* mutant: the new position is opened before the opposite one is closed
BothIntents_openFirst(up, down, long, short) ==
    IF up THEN Opt(~long, "buy") \o Opt(short, "close")
    ELSE IF down THEN Opt(~short, "sell") \o Opt(long, "close")
    ELSE <<>>

\* mutant: an opposite position is closed but the new one is not opened
BothIntents_noFlip(up, down, long, short) ==
    IF up THEN (IF short THEN <<"close">> ELSE Opt(~long, "buy"))
    ELSE IF down THEN (IF long THEN <<"close">> ELSE Opt(~short, "sell"))
    ELSE <<>>

BothIntents(up, down, long, short) ==
    IF up THEN Opt(short, "close") \o Opt(~long, "buy")
    ELSE IF down THEN Opt(long, "close") \o Opt(~short, "sell")
    ELSE <<>>

next_intents(mode, up, down, long, short) ==
    IF mode = "Only_Buy" THEN OnlyBuyIntents(up, down, long, short)
    ELSE IF mode = "Only_Sell" THEN OnlySellIntents(up, down, long, short)
    ELSE BothIntents(up, down, long, short)

CloseOrders(tr) == [k \in DOMAIN tr |-> [kind |-> "close", dir |-> tr[k]]]

\* Position.close(): one closing order per open trade, put at the front
position_close(ords, tr) == CloseOrders(tr) \o ords

\* Strategy.buy()/sell() -> broker.new_order with exclusive_orders=True:
\* pending orders are cancelled, every open trade gets a closing order,
\* the new order goes to the back
new_order(ords, tr, kind) == CloseOrders(tr) \o <<[kind |-> kind, dir |-> ""]>>

RECURSIVE issue(_, _, _, _)
issue(intents, k, ords, tr) ==
    IF k > Len(intents) THEN ords
    ELSE issue(intents, k + 1,
               IF intents[k] = "close" THEN position_close(ords, tr)
               ELSE new_order(ords, tr, intents[k]),
               tr)

\* remove the first trade of direction dir, if there is one
RECURSIVE RemoveFirst(_, _)
RemoveFirst(tr, dir) ==
    IF tr = <<>> THEN <<>>
    ELSE IF Head(tr) = dir THEN Tail(tr)
    ELSE <<Head(tr)>> \o RemoveFirst(Tail(tr), dir)

Without(tr, dir) == SelectSeq(tr, LAMBDA d : d # dir)

\* broker._process_orders for one bar: fills[k] says whether a buy/sell order
\* at place k has the margin to fill (otherwise the broker cancels it)
RECURSIVE process_orders(_, _, _, _)
process_orders(ords, k, tr, fills) ==
    IF k > Len(ords) THEN tr
    ELSE LET o == ords[k]
             tr2 == IF o.kind = "close" THEN RemoveFirst(tr, o.dir)
                    ELSE IF ~fills[k] THEN tr
                    ELSE IF o.kind = "buy" THEN Without(tr, "short") \o <<"long">>
                    ELSE Without(tr, "long") \o <<"short">>
         IN  process_orders(ords, k + 1, tr2, fills)

----------------------------------------------------------------------------
(* run_backtest and Backtest.run *)

IdleEval == [bar |-> 0, pos |-> "Flat", up |-> FALSE, down |-> FALSE, intents |-> <<>>]

\* Values a caller may put under a parameter key in a run
RunValues == {IntV(n) : n \in 0..MaxPeriod} \cup {FloatV(4), StrV}
ParamMaps ==
    UNION {[keys -> RunValues] : keys \in SUBSET {"fast_ema", "slow_ema"}}

Prices == 1..MaxPrice
DataSets == UNION {[1..n -> Prices] : n \in 1..MaxBars}

ValIdle == /\ vSchema = <<>> /\ vValues = <<>> /\ vResult = <<>>
NoFrame == [columns |-> <<>>, index |-> <<>>, rows |-> <<>>]
CsvIdle == /\ csvHeader = <<>> /\ csvRows = <<>> /\ df = NoFrame
           /\ csvErr = "" /\ csvPc = "idle"

\* StrategyRegistry: _strategies is a dict keyed by strategy.name; a dict keeps
\* its keys in the order of their first insertion
Adapter(name, id) == [name |-> name, id |-> id]
EMACrossoverAdapter == Adapter("EMA Crossover", 1)
NoAdapter == Adapter("", 0)

HasKey(strategies, name) == \E k \in DOMAIN strategies : strategies[k].name = name

\* mutant: an overwritten key moves to the end
register_moveToEnd(strategies, strategy) ==
    Append(SelectSeq(strategies, LAMBDA s : s.name # strategy.name), strategy)

\* self._strategies[strategy.name] = strategy
register(strategies, strategy) ==
    IF HasKey(strategies, strategy.name)
    THEN [k \in DOMAIN strategies |->
            IF strategies[k].name = strategy.name THEN strategy ELSE strategies[k]]
    ELSE Append(strategies, strategy)

\* self._strategies.get(name)
get(strategies, name) ==
    IF HasKey(strategies, name)
    THEN strategies[CHOOSE k \in DOMAIN strategies : strategies[k].name = name]
    ELSE NoAdapter

\* list(self._strategies.keys())
list_all(strategies) == [k \in DOMAIN strategies |-> strategies[k].name]

\* core/registry.py registers the EMA adapter when the module is imported
Init ==
    /\ registry = <<EMACrossoverAdapter>>
    /\ registered = <<EMACrossoverAdapter>>
    /\ strategy_name \in {"EMA Crossover", "RSI"}
    /\ params \in ParamMaps
    /\ trade_mode \in Modes
    /\ indicator_engine \in Engines
    /\ talib_installed \in BOOLEAN
    /\ pc = "lookup"
    /\ error = ""
    /\ constructed = FALSE
    /\ data = <<>> /\ fast = <<>> /\ slow = <<>>
    /\ fast_ema = 12 /\ slow_ema = 26
    /\ i = 0
    /\ trades = <<>> /\ orders = <<>>
    /\ lastEval = IdleEval
    /\ ValIdle /\ CsvIdle

Fail(e) == /\ error' = e /\ pc' = "failed"

\* registry.get(strategy_name); raise when None
RegistryGet ==
    /\ pc = "lookup"
    /\ IF get(registry, strategy_name) # NoAdapter
       THEN pc' = "validate" /\ error' = error
       ELSE Fail("not_found")
    /\ UNCHANGED <<registry, registered, strategy_name, params, trade_mode,
                   indicator_engine, talib_installed, constructed, data,
                   fast, slow, fast_ema, slow_ema, i, trades, orders, lastEval>>
    /\ UNCHANGED <<valVars, csvVars>>

\* if not strategy_adapter.validate_params(params): raise
ValidateStep ==
    /\ pc = "validate"
    /\ IF validate_params(EMASchemaKeys, EMASchema, params)
       THEN pc' = "guard" /\ error' = error
       ELSE Fail("invalid_params")
    /\ UNCHANGED <<registry, registered, strategy_name, params, trade_mode,
                   indicator_engine, talib_installed, constructed, data,
                   fast, slow, fast_ema, slow_ema, i, trades, orders, lastEval>>
    /\ UNCHANGED <<valVars, csvVars>>

\* the "extra guard": int(params.get("fast_ema", 12)) >= int(params.get("slow_ema", 26))
\* mutant: the guard compares with > instead of >=
OrderingViolated_strict(p) ==
    IntOf(ParamsGet(p, "fast_ema", 12)) > IntOf(ParamsGet(p, "slow_ema", 26))

OrderingViolated(p) ==
    IntOf(ParamsGet(p, "fast_ema", 12)) >= IntOf(ParamsGet(p, "slow_ema", 26))

OrderingGuard ==
    /\ pc = "guard"
    /\ IF OrderingViolated(params)
       THEN Fail("ordering")
       ELSE pc' = "construct" /\ error' = error
    /\ UNCHANGED <<registry, registered, strategy_name, params, trade_mode,
                   indicator_engine, talib_installed, constructed, data,
                   fast, slow, fast_ema, slow_ema, i, trades, orders, lastEval>>
    /\ UNCHANGED <<valVars, csvVars>>

\* bt = Backtest(data, StrategyClass, cash=..., exclusive_orders=True)
Construct ==
    /\ pc = "construct"
    /\ \E d \in DataSets : data' = d
    /\ constructed' = TRUE
    /\ pc' = "kwargs"
    /\ UNCHANGED <<registry, registered, strategy_name, params, trade_mode,
                   indicator_engine, talib_installed, error,
                   fast, slow, fast_ema, slow_ema, i, trades, orders, lastEval>>
    /\ UNCHANGED <<valVars, csvVars>>

\* run_kwargs = dict(fast_ema=int(params["fast_ema"]), slow_ema=int(params["slow_ema"]), ...)
BuildRunKwargs ==
    /\ pc = "kwargs"
    /\ IF {"fast_ema", "slow_ema"} \subseteq DOMAIN params
       THEN /\ fast_ema' = IntOf(params["fast_ema"])
            /\ slow_ema' = IntOf(params["slow_ema"])
            /\ pc' = "init" /\ error' = error
       ELSE /\ Fail("KeyError")
            /\ UNCHANGED <<fast_ema, slow_ema>>
    /\ UNCHANGED <<registry, registered, strategy_name, params, trade_mode,
                   indicator_engine, talib_installed, constructed, data,
                   fast, slow, i, trades, orders, lastEval>>
    /\ UNCHANGED <<valVars, csvVars>>

\* bt.run(**run_kwargs) -> EMACrossBT.init: the two indicator arrays
EMACrossBT_init ==
    /\ pc = "init"
    /\ IF UsesTalib(indicator_engine)
       THEN /\ fast' = ema_talib_or_pandas(data, fast_ema, talib_installed)
            /\ slow' = ema_talib_or_pandas(data, slow_ema, talib_installed)
       ELSE /\ fast' = ema_pandas(data, fast_ema)
            /\ slow' = ema_pandas(data, slow_ema)
    /\ i' = Start(fast', slow')
    /\ pc' = "bar"
    /\ UNCHANGED <<registry, registered, strategy_name, params, trade_mode,
                   indicator_engine, talib_installed, error, constructed,
                   data, fast_ema, slow_ema, trades, orders, lastEval>>
    /\ UNCHANGED <<valVars, csvVars>>

\* Backtest.run, one iteration, first half: the bar is revealed and broker.next()
\* executes the orders issued on the previous bar
BrokerNext ==
    /\ pc = "bar"
    /\ i < Len(data)
    /\ i' = i + 1
    /\ \E fills \in [DOMAIN orders -> BOOLEAN] :
          trades' = process_orders(orders, 1, trades, fills)
    /\ orders' = <<>>
    /\ pc' = "next"
    /\ UNCHANGED <<registry, registered, strategy_name, params, trade_mode,
                   indicator_engine, talib_installed, error, constructed,
                   data, fast, slow, fast_ema, slow_ema, lastEval>>
    /\ UNCHANGED <<valVars, csvVars>>

\* Backtest.run, one iteration, second half: strategy.next() on bars 1..i
EMACrossBT_next ==
    /\ pc = "next"
    /\ LET up == crossover(SubSeq(fast, 1, i), SubSeq(slow, 1, i))
           down == crossover(SubSeq(slow, 1, i), SubSeq(fast, 1, i))
           intents == next_intents(trade_mode, up, down, is_long(trades), is_short(trades))
       IN  /\ orders' = issue(intents, 1, orders, trades)
           /\ lastEval' = [bar |-> i, pos |-> PositionState(trades), up |-> up,
                           down |-> down, intents |-> intents]
    /\ pc' = "bar"
    /\ UNCHANGED <<registry, registered, strategy_name, params, trade_mode,
                   indicator_engine, talib_installed, error, constructed,
                   data, fast, slow, fast_ema, slow_ema, i, trades>>
    /\ UNCHANGED <<valVars, csvVars>>

\* the loop over the bars is exhausted: results are returned
RunEnd ==
    /\ pc = "bar"
    /\ i = Len(data)
    /\ pc' = "done"
    /\ UNCHANGED <<registry, registered, strategy_name, params, trade_mode,
                   indicator_engine, talib_installed, error, constructed,
                   data, fast, slow, fast_ema, slow_ema, i, trades, orders, lastEval>>
    /\ UNCHANGED <<valVars, csvVars>>

Next ==
    \/ RegistryGet
    \/ ValidateStep
    \/ OrderingGuard
    \/ Construct
    \/ BuildRunKwargs
    \/ EMACrossBT_init
    \/ BrokerNext
    \/ EMACrossBT_next
    \/ RunEnd

Spec == Init /\ [][Next]_vars

----------------------------------------------------------------------------
(* EMACrossBT.next as a function of its inputs: any trade mode, any position *)
(* handed over by the engine, any pair of indicator series                   *)

AnyBars == MaxBars - 2
AnySeries == [1..AnyBars -> {<<v, 1>> : v \in Prices}]

InitAny ==
    /\ registry = <<EMACrossoverAdapter>>
    /\ registered = <<EMACrossoverAdapter>>
    /\ strategy_name = "EMA Crossover"
    /\ params = <<>>
    /\ trade_mode \in Modes
    /\ indicator_engine = "pandas" /\ talib_installed = FALSE
    /\ pc = "next"
    /\ error = ""
    /\ constructed = TRUE
    /\ data = [k \in 1..AnyBars |-> 1]
    /\ fast \in AnySeries
    /\ slow \in AnySeries
    /\ fast_ema = 12 /\ slow_ema = 26
    /\ i \in 1..AnyBars
    /\ trades \in {<<>>, <<"long">>, <<"short">>}
    /\ orders = <<>>
    /\ lastEval = IdleEval
    /\ ValIdle /\ CsvIdle

NextAny ==
    \/ BrokerNext
    \/ EMACrossBT_next
    \/ RunEnd

SpecAny == InitAny /\ [][NextAny]_vars

----------------------------------------------------------------------------
(* Properties of the strategy's position state machine *)

Has(seq, x) == \E k \in DOMAIN seq : seq[k] = x
Evaluated == lastEval.bar > 0
OpenOrders == SelectSeq(orders, LAMBDA o : o.kind \in {"buy", "sell"})

\* C1: under Only_Buy, in a run that starts Flat, next never issues sell and
\* the position is never Short, whatever the sequence of crossover events.
C1_OnlyBuyNeverShort ==
    trade_mode = "Only_Buy" =>
        /\ ~Has(lastEval.intents, "sell")
        /\ ~Has(orders, [kind |-> "sell", dir |-> ""])
        /\ ~is_short(trades)
        /\ lastEval.pos # "Short"

C1_Witness ==
    /\ trade_mode = "Only_Buy"
    /\ lastEval.down /\ lastEval.pos = "Long"
    /\ lastEval.intents = <<"close">>

\* C2: the position is never Long and Short at once, next never issues buy
\* while Long nor sell while Short, and no second trade is ever opened on top
\* of an open one, also while an order is waiting for the next bar.
C2_NoDuplicateOpen ==
    /\ ~(Has(trades, "long") /\ Has(trades, "short"))
    /\ Len(trades) <= 1
    /\ ~(lastEval.pos = "Long" /\ Has(lastEval.intents, "buy"))
    /\ ~(lastEval.pos = "Short" /\ Has(lastEval.intents, "sell"))
    /\ Len(OpenOrders) <= 1
    /\ ~(is_long(trades) /\ Has(orders, [kind |-> "buy", dir |-> ""]))
    /\ ~(is_short(trades) /\ Has(orders, [kind |-> "sell", dir |-> ""]))

C2_Witness ==
    /\ Evaluated
    /\ lastEval.up /\ lastEval.pos = "Long"
    /\ lastEval.intents = <<>>

\* C3: within one evaluation of next, no close is issued after a buy or sell;
\* when both are issued the close comes first.
C3_CloseBeforeOpen ==
    \A j, k \in DOMAIN lastEval.intents :
        (j < k /\ lastEval.intents[j] \in {"buy", "sell"}) => lastEval.intents[k] # "close"

C3_Witness ==
    /\ Evaluated
    /\ lastEval.intents \in {<<"close", "buy">>, <<"close", "sell">>}

\* C4 as stated: a bar without a crossover event issues nothing, for every
\* trade mode and every position.
C4_Original ==
    (Evaluated /\ ~lastEval.up /\ ~lastEval.down) =>
        /\ lastEval.intents = <<>>
        /\ (pc = "bar" => orders = <<>>)

\* C4 amended: a bar without a crossover event issues nothing, except that
\* Only_Buy closes a Short position and Only_Sell closes a Long position on
\* every bar, event or not.
C4_NoEventNoIntent ==
    (Evaluated /\ ~lastEval.up /\ ~lastEval.down) =>
        IF \/ (trade_mode = "Only_Buy" /\ lastEval.pos = "Short")
           \/ (trade_mode = "Only_Sell" /\ lastEval.pos = "Long")
        THEN lastEval.intents = <<"close">>
        ELSE /\ lastEval.intents = <<>>
             /\ (pc = "bar" => orders = <<>>)

C4_Witness ==
    /\ Evaluated /\ ~lastEval.up /\ ~lastEval.down
    /\ lastEval.pos = "Long" /\ trade_mode = "Both_Buy_Sell"
    /\ pc = "bar" /\ orders = <<>> /\ is_long(trades)

\* C5: under Both_Buy_Sell the intents equal the transition table.
BothTable(up, down, pos) ==
    IF up THEN CASE pos = "Flat" -> <<"buy">>
                 [] pos = "Long" -> <<>>
                 [] pos = "Short" -> <<"close", "buy">>
    ELSE IF down THEN CASE pos = "Flat" -> <<"sell">>
                        [] pos = "Long" -> <<"close", "sell">>
                        [] pos = "Short" -> <<>>
    ELSE <<>>

C5_BothTable ==
    (Evaluated /\ trade_mode = "Both_Buy_Sell") =>
        lastEval.intents = BothTable(lastEval.up, lastEval.down, lastEval.pos)

C5_Witness ==
    /\ Evaluated /\ trade_mode = "Both_Buy_Sell"
    /\ lastEval.down /\ lastEval.pos = "Long"
    /\ lastEval.intents = <<"close", "sell">>

\* C6 as stated: Only_Buy with a down-cross is a no-op when Flat or Short and
\* Close when Long; Only_Sell with an up-cross is a no-op when Flat or Long and
\* Close when Short; Only_Sell with a down-cross while Long issues Close only.
C6_Original ==
    Evaluated =>
        /\ (trade_mode = "Only_Buy" /\ lastEval.down) =>
              lastEval.intents = IF lastEval.pos = "Long" THEN <<"close">> ELSE <<>>
        /\ (trade_mode = "Only_Sell" /\ lastEval.up) =>
              lastEval.intents = IF lastEval.pos = "Short" THEN <<"close">> ELSE <<>>
        /\ (trade_mode = "Only_Sell" /\ lastEval.down /\ lastEval.pos = "Long") =>
              lastEval.intents = <<"close">>

\* C6 amended: Only_Buy with a down-cross is a no-op when Flat and Close when
\* Long or Short; Only_Sell with an up-cross is a no-op when Flat and Close
\* when Short or Long; Only_Sell with a down-cross while Long issues Close and
\* then OpenShort on the same bar.
C6_SingleDirectionTable ==
    Evaluated =>
        /\ (trade_mode = "Only_Buy" /\ lastEval.down) =>
              lastEval.intents = IF lastEval.pos = "Flat" THEN <<>> ELSE <<"close">>
        /\ (trade_mode = "Only_Sell" /\ lastEval.up) =>
              lastEval.intents = IF lastEval.pos = "Flat" THEN <<>> ELSE <<"close">>
        /\ (trade_mode = "Only_Sell" /\ lastEval.down /\ lastEval.pos = "Long") =>
              lastEval.intents = <<"close", "sell">>

C6_Witness ==
    /\ Evaluated /\ trade_mode = "Only_Sell"
    /\ lastEval.down /\ lastEval.pos = "Long"
    /\ lastEval.intents = <<"close", "sell">>

\* C7 as stated: at every bar t >= 1 (0-based) the strategy evaluates,
\* up iff fast[t-1] <= slow[t-1] and fast[t] > slow[t]; down iff
\* fast[t-1] >= slow[t-1] and fast[t] < slow[t]; no event on the first bar.
\* (lastEval.bar is the 1-based bar, so the first bar is bar 1.)
Le(a, b) == ~Lt(b, a)

C7_Original ==
    Evaluated =>
        LET t == lastEval.bar IN
        IF t = 1 THEN ~lastEval.up /\ ~lastEval.down
        ELSE /\ lastEval.up <=> (Le(fast[t - 1], slow[t - 1]) /\ Lt(slow[t], fast[t]))
             /\ lastEval.down <=> (Le(slow[t - 1], fast[t - 1]) /\ Lt(fast[t], slow[t]))

\* C7 amended: up iff fast[t-1] < slow[t-1] and fast[t] > slow[t]; down iff
\* fast[t-1] > slow[t-1] and fast[t] < slow[t]; a bar that follows one where
\* the two series were equal fires no event; no event on the first bar.
C7_StrictCrossover ==
    Evaluated =>
        LET t == lastEval.bar IN
        IF t = 1 THEN ~lastEval.up /\ ~lastEval.down
        ELSE /\ lastEval.up <=> (Lt(fast[t - 1], slow[t - 1]) /\ Lt(slow[t], fast[t]))
             /\ lastEval.down <=> (Lt(slow[t - 1], fast[t - 1]) /\ Lt(fast[t], slow[t]))

C7_Witness ==
    /\ lastEval.bar >= 2
    /\ ~Lt(fast[lastEval.bar - 1], slow[lastEval.bar - 1])
    /\ ~Lt(slow[lastEval.bar - 1], fast[lastEval.bar - 1])
    /\ Lt(slow[lastEval.bar], fast[lastEval.bar])
    /\ ~lastEval.up /\ ~lastEval.down

\* C9: params that pass validation with fast_ema >= slow_ema make run_backtest
\* fail with the ordering error before a Backtest is constructed, before any
\* bar reaches the strategy and without any order intent.
C9_Pre ==
    /\ Has(list_all(registry), strategy_name)
    /\ validate_params(EMASchemaKeys, EMASchema, params)
    /\ {"fast_ema", "slow_ema"} \subseteq DOMAIN params
    /\ params["fast_ema"].x2 >= params["slow_ema"].x2

C9_OrderingErrorFirst ==
    C9_Pre =>
        /\ ~constructed
        /\ pc \in {"lookup", "validate", "guard", "failed"}
        /\ (pc = "failed" => error = "ordering")
        /\ i = 0 /\ lastEval = IdleEval /\ orders = <<>> /\ trades = <<>>

C9_Witness ==
    /\ C9_Pre
    /\ params["fast_ema"] = params["slow_ema"]
    /\ pc = "failed" /\ error = "ordering" /\ ~constructed

----------------------------------------------------------------------------
(* StrategyAdapter.validate_params over schemas of any adapter *)

SchemaKeys == <<"a", "b">>
ParamSpecs ==
    {[type |-> ty, hasDefault |-> hd, default |-> 1,
      hasMin |-> rg, min |-> 1, hasMax |-> rg, max |-> RangeMax] :
        ty \in {"int", "float"}, hd \in BOOLEAN, rg \in BOOLEAN}
    \cup
    {[type |-> "str", hasDefault |-> hd, default |-> 1,
      hasMin |-> FALSE, min |-> 1, hasMax |-> FALSE, max |-> RangeMax] :
        hd \in BOOLEAN}
Schemas == [{"a", "b"} -> ParamSpecs]
CallValues == {IntV(n) : n \in 0..(RangeMax + 1)} \cup {FloatV(3), StrV, BoolV(TRUE)}
ValueMaps ==
    UNION {[keys -> CallValues] : keys \in SUBSET {"a", "b"}}
    \cup {[k \in {"a", "zz"} |-> IF k = "a" THEN v ELSE StrV] : v \in CallValues}

RunRest ==
    /\ strategy_name = "" /\ params = <<>>
    /\ trade_mode = "Both_Buy_Sell" /\ pc = "idle" /\ error = ""
    /\ indicator_engine = "pandas" /\ talib_installed = FALSE
    /\ constructed = FALSE /\ data = <<>> /\ fast = <<>> /\ slow = <<>>
    /\ fast_ema = 12 /\ slow_ema = 26 /\ i = 0
    /\ trades = <<>> /\ orders = <<>> /\ lastEval = IdleEval

RunIdle ==
    /\ registry = <<EMACrossoverAdapter>> /\ registered = <<EMACrossoverAdapter>>
    /\ RunRest

InitValidate ==
    /\ RunIdle /\ CsvIdle
    /\ vSchema \in Schemas
    /\ vValues \in ValueMaps
    /\ vResult = <<>>

\* adapter.validate_params(values): the call and its returned value; the
\* method only reads its arguments
CallValidate ==
    /\ Len(vResult) < 2
    /\ vResult' = Append(vResult, validate_params(SchemaKeys, vSchema, vValues))
    /\ UNCHANGED <<vSchema, vValues>>
    /\ UNCHANGED <<runVars, csvVars>>

\* the caller drops the results and starts over with the same arguments
ForgetResults ==
    /\ Len(vResult) = 2
    /\ vResult' = <<>>
    /\ UNCHANGED <<vSchema, vValues>>
    /\ UNCHANGED <<runVars, csvVars>>

NextValidate ==
    \/ CallValidate
    \/ ForgetResults

SpecValidate == InitValidate /\ [][NextValidate]_vars

\* The type rule of the claim: int requires an integer (Python counts bool as
\* one), float accepts an integer or a float.  The claim gives no rule for a
\* parameter declared with another type (str), and the code checks none.
TypeMatches(type, v) ==
    CASE type = "int" -> v.kind \in {"int", "bool"}
      [] type = "float" -> v.kind \in {"int", "bool", "float"}
      [] OTHER -> TRUE

KeyFails(info, key, values) ==
    IF key \notin DOMAIN values THEN ~info.hasDefault
    ELSE \/ ~TypeMatches(info.type, values[key])
         \/ (info.hasMin /\ values[key].x2 < 2 * info.min)
         \/ (info.hasMax /\ values[key].x2 > 2 * info.max)

----------------------------------------------------------------------------
(* utils/io_utils.py: load_and_validate_csv *)

\* A cell is [k, v].  In the file: a date cell is a date string for time v
\* ("text", v >= 1), a string no format parses ("text", 0) or empty ("nan");
\* a numeric cell is a number ("num"), a non-numeric string ("text") or empty
\* ("nan").  Parsed dates are ("ts", v) or NaT ("nat").
Cell(k, v) == [k |-> k, v |-> v]

required_columns == <<"date", "open", "high", "low", "close", "volume">>
numeric_columns == <<"open", "high", "low", "close", "volume">>

\* str.lower() / str.title() on the column names that occur
Lower(name) ==
    CASE name \in {"date", "Date"} -> "date"
      [] name \in {"open", "OPEN"} -> "open"
      [] name \in {"close", "Close"} -> "close"
      [] OTHER -> name

Title(name) ==
    CASE name \in {"date", "Date"} -> "Date"
      [] name \in {"open", "OPEN"} -> "Open"
      [] name = "high" -> "High"
      [] name = "low" -> "Low"
      [] name \in {"close", "Close"} -> "Close"
      [] name = "volume" -> "Volume"
      [] name = "oi" -> "Oi"
      [] OTHER -> name

InColumns(columns, name) == \E k \in DOMAIN columns : columns[k] = name
ColIndex(columns, name) == CHOOSE k \in DOMAIN columns : columns[k] = name

\* validate_csv_columns: the required names that are not column names
\* mutant: only the first missing column is reported
missing_columns_first(columns) ==
    LET m == SelectSeq(required_columns, LAMBDA col : ~InColumns(columns, col))
    IN IF m = <<>> THEN <<>> ELSE <<m[1]>>

missing_columns(columns) ==
    SelectSeq(required_columns, LAMBDA col : ~InColumns(columns, col))

\* parse_date_column: pd.to_datetime over the date column; an empty cell
\* becomes NaT, a string no format parses raises
DateParses(frame) ==
    \A r \in DOMAIN frame.rows :
        LET c == frame.rows[r][ColIndex(frame.columns, "date")]
        IN  ~(c.k = "text" /\ c.v = 0)

to_datetime(c) == IF c.k = "nan" THEN Cell("nat", 0) ELSE Cell("ts", c.v)

parse_date_column(frame) ==
    [frame EXCEPT !.rows =
        [r \in DOMAIN frame.rows |->
            [frame.rows[r] EXCEPT ![ColIndex(frame.columns, "date")] = to_datetime(@)]]]

\* validate_numeric_columns: pd.to_numeric(errors='coerce') on the columns
\* that are not numeric yet; a non-numeric string becomes NaN
to_numeric(c) == IF c.k = "text" THEN Cell("nan", 0) ELSE c

IsNumericCol(columns, k) == \E n \in DOMAIN numeric_columns : columns[k] = numeric_columns[n]

validate_numeric_columns(frame) ==
    [frame EXCEPT !.rows =
        [r \in DOMAIN frame.rows |->
            [k \in DOMAIN frame.rows[r] |->
                IF IsNumericCol(frame.columns, k)
                THEN to_numeric(frame.rows[r][k]) ELSE frame.rows[r][k]]]]

DropAt(seq, k) == SubSeq(seq, 1, k - 1) \o SubSeq(seq, k + 1, Len(seq))

\* df.set_index('date', inplace=True)
set_index(frame) ==
    LET d == ColIndex(frame.columns, "date")
    IN  [columns |-> DropAt(frame.columns, d),
         index |-> [r \in DOMAIN frame.rows |-> frame.rows[r][d]],
         rows |-> [r \in DOMAIN frame.rows |-> DropAt(frame.rows[r], d)]]

\* df.columns = [col.title() for col in df.columns]
title_columns(frame) ==
    [frame EXCEPT !.columns = [k \in DOMAIN frame.columns |-> Title(frame.columns[k])]]

\* df.sort_index(inplace=True): ascending, NaT last, ties in file order
Before(a, b) == a.k = "ts" /\ (b.k = "nat" \/ a.v < b.v)

RECURSIVE InsertSorted(_, _, _)
InsertSorted(perm, r, index) ==
    IF perm = <<>> THEN <<r>>
    ELSE IF Before(index[r], index[Head(perm)]) THEN <<r>> \o perm
    ELSE <<Head(perm)>> \o InsertSorted(Tail(perm), r, index)

RECURSIVE SortPerm(_, _)
SortPerm(n, index) ==
    IF n = 0 THEN <<>> ELSE InsertSorted(SortPerm(n - 1, index), n, index)

Reorder(frame, perm) ==
    [frame EXCEPT !.index = [k \in DOMAIN perm |-> frame.index[perm[k]]],
                  !.rows = [k \in DOMAIN perm |-> frame.rows[perm[k]]]]

sort_index(frame) == Reorder(frame, SortPerm(Len(frame.index), frame.index))

\* df.dropna(inplace=True): rows with NaN in any column; the index is not looked at
HasNaN(row) == \E k \in DOMAIN row : row[k].k = "nan"

RECURSIVE Keep(_, _)
Keep(rows, k) ==
    IF k > Len(rows) THEN <<>>
    ELSE (IF HasNaN(rows[k]) THEN <<>> ELSE <<k>>) \o Keep(rows, k + 1)

dropna(frame) == Reorder(frame, Keep(frame.rows, 1))

\* The files tried
Headers ==
    { <<"date", "open", "high", "low", "close", "volume">>,
      <<"volume", "close", "low", "high", "open", "date">>,
      <<"Date", "OPEN", "high", "low", "Close", "volume">>,
      <<"date", "open", "high", "low", "close">>,
      <<"date", "open", "high", "low", "close", "volume", "oi">> }

DateCells == {Cell("text", v) : v \in 0..MaxTs} \cup {Cell("nan", 0)}
RowKinds == {"ok", "closeNaN", "closeText", "volumeNaN"}

FileRow(header, date, kind) ==
    [k \in DOMAIN header |->
        CASE Lower(header[k]) = "date" -> date
          [] Lower(header[k]) = "close" /\ kind = "closeNaN" -> Cell("nan", 0)
          [] Lower(header[k]) = "close" /\ kind = "closeText" -> Cell("text", 0)
          [] Lower(header[k]) = "volume" /\ kind = "volumeNaN" -> Cell("nan", 0)
          [] OTHER -> Cell("num", 1)]

InitCsv ==
    /\ RunIdle /\ ValIdle
    /\ csvHeader \in Headers
    /\ \E n \in 0..MaxRows :
         \E dates \in [1..n -> DateCells], kinds \in [1..n -> RowKinds] :
            csvRows = [r \in 1..n |-> FileRow(csvHeader, dates[r], kinds[r])]
    /\ df = NoFrame
    /\ csvErr = ""
    /\ csvPc = "read"

CsvReturnError(msg) == /\ df' = NoFrame /\ csvErr' = msg /\ csvPc' = "returned"

\* df = pd.read_csv(uploaded_file)
ReadCsv ==
    /\ csvPc = "read"
    /\ df' = [columns |-> csvHeader, index |-> <<>>, rows |-> csvRows]
    /\ csvPc' = "columns"
    /\ UNCHANGED <<csvHeader, csvRows, csvErr>>
    /\ UNCHANGED <<runVars, valVars>>

\* validate_csv_columns(df)
ValidateCsvColumns ==
    /\ csvPc = "columns"
    /\ IF missing_columns(df.columns) # <<>>
       THEN CsvReturnError(<<"Missing required columns">> \o missing_columns(df.columns))
       ELSE /\ csvPc' = "date" /\ UNCHANGED <<df, csvErr>>
    /\ UNCHANGED <<csvHeader, csvRows>>
    /\ UNCHANGED <<runVars, valVars>>

\* parse_date_column(df)
ParseDateColumn ==
    /\ csvPc = "date"
    /\ IF DateParses(df)
       THEN /\ df' = parse_date_column(df) /\ csvPc' = "numeric" /\ UNCHANGED csvErr
       ELSE CsvReturnError(<<"Error parsing date column">>)
    /\ UNCHANGED <<csvHeader, csvRows>>
    /\ UNCHANGED <<runVars, valVars>>

\* validate_numeric_columns(df)
ValidateNumericColumns ==
    /\ csvPc = "numeric"
    /\ df' = validate_numeric_columns(df)
    /\ csvPc' = "finish"
    /\ UNCHANGED <<csvHeader, csvRows, csvErr>>
    /\ UNCHANGED <<runVars, valVars>>

\* set_index, title-case, sort_index, dropna, the empty check and the return
FinishCsv ==
    /\ csvPc = "finish"
    /\ LET out == dropna(sort_index(title_columns(set_index(df))))
       IN  IF Len(out.rows) = 0
           THEN CsvReturnError(<<"No valid data rows found after processing">>)
           ELSE /\ df' = out /\ csvPc' = "returned" /\ UNCHANGED csvErr
    /\ UNCHANGED <<csvHeader, csvRows>>
    /\ UNCHANGED <<runVars, valVars>>

\* prepare_data_for_backtest(df)
expected_columns == <<"Open", "High", "Low", "Close", "Volume">>

missing_cols(columns) ==
    SelectSeq(expected_columns, LAMBDA col : ~InColumns(columns, col))

\* mutant: the columns are kept in the order of the file
select_columns_fileOrder(frame) == frame

\* df[expected_columns].copy()
select_columns(frame) ==
    [frame EXCEPT
        !.columns = expected_columns,
        !.rows = [r \in DOMAIN frame.rows |->
                    [k \in DOMAIN expected_columns |->
                        frame.rows[r][ColIndex(frame.columns, expected_columns[k])]]]]

\* main(): after a load without error, backtest_data = prepare_data_for_backtest(data)
PrepareData ==
    /\ csvPc = "returned" /\ csvErr = ""
    /\ IF missing_cols(df.columns) # <<>>
       THEN /\ csvErr' = <<"Missing columns for backtesting">> \o missing_cols(df.columns)
            /\ csvPc' = "raised" /\ UNCHANGED df
       ELSE /\ df' = select_columns(df) /\ csvPc' = "prepared" /\ UNCHANGED csvErr
    /\ UNCHANGED <<csvHeader, csvRows>>
    /\ UNCHANGED <<runVars, valVars>>

NextCsv ==
    \/ ReadCsv
    \/ ValidateCsvColumns
    \/ ParseDateColumn
    \/ ValidateNumericColumns
    \/ FinishCsv
    \/ PrepareData

SpecCsv == InitCsv /\ [][NextCsv]_vars

CsvReturned == csvPc = "returned" /\ csvErr = ""

\* C10: the series a successful load_and_validate_csv returns is strictly
\* increasing by timestamp (so no two rows share a timestamp), has no row
\* with a missing timestamp and no row with a missing value in any field.
C10_StrictlyIncreasingNoMissing ==
    CsvReturned =>
        /\ \A k \in DOMAIN df.index : df.index[k].k = "ts"
        /\ \A k \in 1..(Len(df.index) - 1) : df.index[k].v < df.index[k + 1].v
        /\ \A r \in DOMAIN df.rows : ~HasNaN(df.rows[r])


\* What a reader calls a column name "in any letter case", a valid row, and
\* rows in ascending order
HeaderHasRequired(header) ==
    \A n \in DOMAIN required_columns :
        \E k \in DOMAIN header : Lower(header[k]) = required_columns[n]

DateOf(header, row) == row[CHOOSE k \in DOMAIN header : Lower(header[k]) = "date"]
ValueCells(header, row) == {row[k] : k \in {j \in DOMAIN header : Lower(header[j]) # "date"}}

ValidFileRow(header, row) ==
    /\ DateOf(header, row).k = "text" /\ DateOf(header, row).v >= 1
    /\ \A c \in ValueCells(header, row) : c.k = "num"

Ascending(index) == \A k \in 1..(Len(index) - 1) : ~Before(index[k + 1], index[k])

CanonicalFrame ==
    /\ df.columns = <<"Open", "High", "Low", "Close", "Volume">>
    /\ Len(df.rows) >= 1 /\ Len(df.index) = Len(df.rows)
    /\ \A r \in DOMAIN df.rows : Len(df.rows[r]) = 5
    /\ Ascending(df.index)

\* C11 as stated: a CSV whose header has the six required names in any letter
\* case and any order, with at least one valid row, is loaded and prepared
\* successfully into the columns Open, High, Low, Close, Volume, rows ascending.
C11_Original ==
    (/\ HeaderHasRequired(csvHeader)
     /\ \E r \in DOMAIN csvRows : ValidFileRow(csvHeader, csvRows[r])) =>
        /\ csvPc \in {"returned", "raised"} => csvErr = ""
        /\ csvPc = "prepared" => CanonicalFrame

\* C11 amended: a CSV whose header has the six required names in lower case,
\* in any order, whose date cells all parse or are empty, and with at least
\* one row complete in every value column, is loaded and prepared successfully
\* into the columns Open, High, Low, Close, Volume in that order, rows in
\* non-decreasing timestamp order with missing timestamps last.
C11_Pre ==
    /\ missing_columns(csvHeader) = <<>>
    /\ \A r \in DOMAIN csvRows : ~(DateOf(csvHeader, csvRows[r]) = Cell("text", 0))
    /\ \E r \in DOMAIN csvRows : \A c \in ValueCells(csvHeader, csvRows[r]) : c.k = "num"

C11_LowerCaseRoundTrip ==
    C11_Pre =>
        /\ csvPc \in {"returned", "raised"} => csvErr = ""
        /\ csvPc = "prepared" => CanonicalFrame

C11_Witness ==
    /\ C11_Pre
    /\ csvPc = "prepared" /\ CanonicalFrame
    /\ csvHeader[1] = "volume"
    /\ Len(csvRows) = 2 /\ Len(df.rows) = 2
    /\ DateOf(csvHeader, csvRows[1]).v > DateOf(csvHeader, csvRows[2]).v


\* The required names the header of the file lacks, and the names an error
\* message lists after its text
Lacking == {required_columns[n] : n \in {j \in DOMAIN required_columns :
                \A k \in DOMAIN csvHeader : csvHeader[k] # required_columns[j]}}
NamedIn(msg) == {msg[k] : k \in 2..Len(msg)}

\* C15: for a table lacking one or more required columns, load_and_validate_csv
\* returns no data and an error message that names every missing column and
\* no present column, and no later stage (date parsing, numeric coercion,
\* sorting, row dropping, preparation) is ever entered.
C15_MissingColumnsStopLoad ==
    Lacking # {} =>
        /\ csvPc \in {"read", "columns", "returned"}
        /\ csvPc = "returned" =>
            /\ df = NoFrame
            /\ Len(csvErr) >= 2 /\ csvErr[1] = "Missing required columns"
            /\ NamedIn(csvErr) = Lacking

C15_Witness ==
    /\ csvPc = "returned" /\ df = NoFrame
    /\ Cardinality(Lacking) >= 2
    /\ NamedIn(csvErr) = Lacking
    /\ Len(csvRows) >= 1


(***************************************************************************)
(* The registry on its own: a fresh StrategyRegistry() and register calls  *)
(***************************************************************************)
Names == {"EMA Crossover", "RSI", "MACD"}
Adapters == {Adapter(n, k) : n \in Names, k \in 1..MaxIds}

InitRegistry ==
    /\ registry = <<>> /\ registered = <<>>
    /\ RunRest /\ ValIdle /\ CsvIdle

Register(strategy) ==
    /\ Len(registered) < MaxRegs
    /\ registry' = register(registry, strategy)
    /\ registered' = Append(registered, strategy)
    /\ UNCHANGED <<strategy_name, params, trade_mode, indicator_engine,
                   talib_installed, pc, error, constructed, data,
                   fast, slow, fast_ema, slow_ema, i, trades, orders, lastEval>>
    /\ UNCHANGED <<valVars, csvVars>>

\* register_default_strategies(), run once when the module is imported
RegisterDefaultStrategies ==
    /\ registered = <<>>
    /\ Register(EMACrossoverAdapter)

NextRegistry ==
    \/ RegisterDefaultStrategies
    \/ \E strategy \in Adapters : Register(strategy)

SpecRegistry == InitRegistry /\ [][NextRegistry]_vars

\* The calls made so far that carry a name, and the names in the order in
\* which they were first handed to register
CallsFor(name) == SelectSeq(registered, LAMBDA s : s.name = name)
FirstCalls == {k \in DOMAIN registered : \A j \in 1..(k - 1) : registered[j].name # registered[k].name}
NthFirst(n) == CHOOSE k \in FirstCalls : Cardinality({j \in FirstCalls : j < k}) = n - 1

\* C12: after any sequence of register calls, get(name) is the adapter most
\* recently registered under that name (nothing for a name never registered),
\* list_all is every registered name exactly once in order of first
\* registration, and a name once registered stays.
C12_RegistryReflectsCalls ==
    /\ \A name \in Names \cup {"Bollinger"} :
         get(registry, name) =
            IF CallsFor(name) = <<>> THEN NoAdapter
            ELSE CallsFor(name)[Len(CallsFor(name))]
    /\ Len(list_all(registry)) = Cardinality(FirstCalls)
    /\ \A n \in 1..Cardinality(FirstCalls) :
         list_all(registry)[n] = registered[NthFirst(n)].name
    /\ \A k \in DOMAIN registered : Has(list_all(registry), registered[k].name)

C12_Witness ==
    /\ Len(registered) = 3
    /\ registered[1].name = registered[3].name
    /\ registered[1] # registered[3]
    /\ registered[2].name # registered[1].name
    /\ get(registry, registered[1].name) = registered[3]
    /\ list_all(registry) = <<registered[1].name, registered[2].name>>


\* What a run with the standard engine computes from the same data
PandasFast == ema_pandas(data, fast_ema)
PandasSlow == ema_pandas(data, slow_ema)
PandasUp(k) == crossover(SubSeq(PandasFast, 1, k), SubSeq(PandasSlow, 1, k))
PandasDown(k) == crossover(SubSeq(PandasSlow, 1, k), SubSeq(PandasFast, 1, k))

\* C13: with the TA-Lib engine selected and TA-Lib not installed, the
\* indicators are computed without error and are exactly the series
\* _ema_pandas returns, so the run starts on the same bar and every evaluated
\* bar has the crossover events and the intents of a standard-engine run.
C13_FallbackEqualsPandas ==
    (indicator_engine = "TA-Lib" /\ ~talib_installed /\ pc \in {"bar", "next", "done"}) =>
        /\ error = ""
        /\ fast = PandasFast /\ slow = PandasSlow
        /\ Start(fast, slow) = 1
        /\ Evaluated =>
            /\ lastEval.up = PandasUp(lastEval.bar)
            /\ lastEval.down = PandasDown(lastEval.bar)
            /\ lastEval.intents =
                 next_intents(trade_mode, PandasUp(lastEval.bar), PandasDown(lastEval.bar),
                              lastEval.pos = "Long", lastEval.pos = "Short")

C13_Witness ==
    /\ indicator_engine = "TA-Lib" /\ ~talib_installed
    /\ Evaluated /\ lastEval.up /\ lastEval.intents = <<"buy">>
    /\ fast = PandasFast /\ slow = PandasSlow
    /\ talib_EMA(data, slow_ema) # slow


ConstantClose == Len(data) >= 1 /\ \A k \in DOMAIN data : data[k] = data[1]

\* C14: on a constant close series, in every trade mode and for any fast and
\* slow periods, neither crossover is detected on any bar, next issues no
\* intent, and a run that starts Flat is Flat on every bar, the final one
\* included.
C14_ConstantSeriesNoTrade ==
    (ConstantClose /\ pc \in {"bar", "next", "done"}) =>
        /\ (pc = "bar" /\ ~Evaluated) =>
             \A pf \in 1..MaxPeriod, ps \in 1..MaxPeriod : \A k \in 1..Len(data) :
                ~crossover(SubSeq(ema_pandas(data, pf), 1, k), SubSeq(ema_pandas(data, ps), 1, k))
        /\ \A k \in 1..Len(data) :
             /\ ~crossover(SubSeq(fast, 1, k), SubSeq(slow, 1, k))
             /\ ~crossover(SubSeq(slow, 1, k), SubSeq(fast, 1, k))
        /\ Evaluated => ~lastEval.up /\ ~lastEval.down /\ lastEval.intents = <<>>
        /\ orders = <<>>
        /\ PositionState(trades) = "Flat"

C14_Witness ==
    /\ ConstantClose /\ Len(data) = MaxBars /\ data[1] = MaxPrice
    /\ fast_ema = 2 /\ slow_ema = 3
    /\ pc = "done" /\ lastEval.bar = Len(data)
    /\ lastEval.intents = <<>> /\ PositionState(trades) = "Flat"


\* C16: when the strategy is registered, validate_params accepts params and
\* the ordering guard passes, run_backtest raises no error on the way to the
\* strategy, and the strategy runs with the periods of params, a period
\* omitted from params being replaced by its schema default (12 and 26).
C16_Pre ==
    /\ Has(list_all(registry), strategy_name)
    /\ validate_params(EMASchemaKeys, EMASchema, params)
    /\ ~OrderingViolated(params)

C16_ValidRunUsesDefaults ==
    C16_Pre =>
        /\ pc # "failed" /\ error = ""
        /\ pc \in {"init", "bar", "next", "done"} =>
            /\ fast_ema = IntOf(ParamsGet(params, "fast_ema", 12))
            /\ slow_ema = IntOf(ParamsGet(params, "slow_ema", 26))

====
